---- MODULE Spec2Model ----
(***************************************************************************)
(* auth0-tools: the import pipeline of src/main.go (second generation,     *)
(* lines 289-591): splitJSONData, checkImportJobStatus, importUsersChunk   *)
(* and importCmd.Run.  Durations are in seconds, sizes in bytes.           *)
(***************************************************************************)
EXTENDS Integers, Sequences, FiniteSets, TLC

VARIABLES
    reader,         \* the document stream handed to splitJSONData
    maxChunkSize,   \* splitJSONData's maxChunkSize argument
    emailVerify,    \* splitJSONData's emailVerify argument
    ret,            \* what splitJSONData returned: [chunks, err]
    pc,             \* position of the caller (importCmd.Run or a bare call)
    i,              \* importCmd.Run: index of the chunk being imported
    jobs,           \* the m.Job.ImportUsers calls made so far, in order
    pollPc,         \* checkImportJobStatus: "idle", "read", "sleep", "returned"
    interval,       \* checkImportJobStatus: interval
    totalWait,      \* checkImportJobStatus: totalWait
    readLog,        \* outcomes of the m.Job.Read calls for the current job
    sleepLog,       \* durations of the time.Sleep calls for the current job
    pollResult,     \* checkImportJobStatus's return value
    artifact,       \* the file exported_users.json.gz: [exists, content]
    expPc,          \* exportCmd.Run: "idle", "start", "sleep", "check", "done", "returned", "fatal"
    expLast,        \* exportCmd.Run: outcome of the latest checkJobStatus call
    data,           \* the bytes given to both generations of splitJSONData
    ret1            \* what the first generation's splitJSONData returned

vars == <<reader, maxChunkSize, emailVerify, ret, pc, i, jobs,
          pollPc, interval, totalWait, readLog, sleepLog, pollResult,
          artifact, expPc, expLast, data, ret1>>

splitVars == <<reader, maxChunkSize, emailVerify, ret>>
pollVars == <<pollPc, interval, totalWait, readLog, sleepLog, pollResult>>
exportVars == <<expPc, expLast>>
byteVars == <<data, ret1>>

----------------------------------------------------------------------------
(* Bounds of the model *)

MaxRecords == 3         \* documents in a stream given to a bare splitJSONData call
MaxFileRecords == 3     \* documents in the export artifact of an import run
MaxBytes == 4           \* tokens in an input given at the byte level
MaxReads == 12          \* cap on status reads of one job (never reached by the code)

(* Program constants *)

ChunkBytes == 500000    \* splitJSONData(reader, 500000, true)
InitialInterval == 5    \* interval := 5 * time.Second
MaxInterval == 30       \* maxInterval := 30 * time.Second
MaxWait == 300          \* maxWait := 5 * time.Minute

----------------------------------------------------------------------------
(* Records and their serialized size *)

\* A document of the stream.  An "object" is a JSON object: email_verified is
\* the value of that field in the input ("absent" when it has none) and rest is
\* the byte length of its other fields as json.Marshal writes them (joined by
\* commas).  "null" is the JSON value null, "bad" a malformed document or one
\* that is not an object.
Doc(kind, ev, rest) == [kind |-> kind, email_verified |-> ev, rest |-> rest]

EvValues == {"absent", "true", "false"}

Objects(rests) == {Doc("object", ev, r) : ev \in EvValues, r \in rests}

Docs(rests) == Objects(rests) \cup {Doc("null", "absent", 0), Doc("bad", "absent", 0)}

Streams(docs, n) == UNION {[1..k -> docs] : k \in 0..n}

BoolStr(b) == IF b THEN "true" ELSE "false"

\* (variant) the flag is assigned only to a record that has none
SetEmailVerifiedIfAbsent(user, ev) ==
    IF user.email_verified = "absent"
    THEN [user EXCEPT !.email_verified = BoolStr(ev)]
    ELSE user

\* user["email_verified"] = emailVerify
SetEmailVerified(user, ev) == [user EXCEPT !.email_verified = BoolStr(ev)]

\* len(json.Marshal(user)): braces, the other fields, and "email_verified":v
MarshalLen(user) ==
    LET flag == IF user.email_verified = "absent" THEN 0
                ELSE 17 + (IF user.email_verified = "true" THEN 4 ELSE 5)
        comma == IF user.rest > 0 /\ flag > 0 THEN 1 ELSE 0
    IN 2 + user.rest + comma + flag

RECURSIVE Concat(_)
Concat(ss) == IF ss = <<>> THEN <<>> ELSE Head(ss) \o Concat(Tail(ss))

RECURSIVE SumLen(_)
SumLen(c) == IF c = <<>> THEN 0 ELSE MarshalLen(Head(c)) + SumLen(Tail(c))

----------------------------------------------------------------------------
(* splitJSONData *)

\* (variant) the bound is tested against the record alone
OverflowsRecordOnly(chunkSize, userSize, maxSize) == userSize > maxSize

\* if chunkSize+userSize > maxChunkSize
Overflows(chunkSize, userSize, maxSize) == chunkSize + userSize > maxSize

\* chunks = append(chunks, chunk)
CloseChunk(chunks, chunk) == Append(chunks, chunk)

\* (variant) the batch in progress at end of stream is not appended
FinalChunksDropLast(chunks, chunk) == chunks

\* (variant) the batch in progress is appended even when it is empty
FinalChunksAlways(chunks, chunk) == Append(chunks, chunk)

\* if len(chunk) > 0 { chunks = append(chunks, chunk) }
FinalChunks(chunks, chunk) == IF Len(chunk) > 0 THEN Append(chunks, chunk) ELSE chunks

\* The decode loop.  err is "nil", "decode" (the error return, chunks nil) or
\* "panic" (assignment to an entry of the nil map a top-level null decodes to).
RECURSIVE SplitLoop(_, _, _, _, _, _)
SplitLoop(rd, maxSize, ev, chunks, chunk, chunkSize) ==
    IF rd = <<>> THEN [chunks |-> FinalChunks(chunks, chunk), err |-> "nil"]
    ELSE IF Head(rd).kind = "bad" THEN [chunks |-> <<>>, err |-> "decode"]
    ELSE IF Head(rd).kind = "null" THEN [chunks |-> <<>>, err |-> "panic"]
    ELSE LET user == SetEmailVerified(Head(rd), ev)
             userSize == MarshalLen(user)
             over == Overflows(chunkSize, userSize, maxSize)
             chunks1 == IF over THEN CloseChunk(chunks, chunk) ELSE chunks
             chunk1 == IF over THEN <<>> ELSE chunk
             size1 == IF over THEN 0 ELSE chunkSize
         IN SplitLoop(Tail(rd), maxSize, ev, chunks1,
                      Append(chunk1, user), size1 + userSize)

splitJSONData(rd, maxSize, ev) == SplitLoop(rd, maxSize, ev, <<>>, <<>>, 0)

NotCalled == [chunks |-> <<>>, err |-> "none"]

----------------------------------------------------------------------------
(* A bare call of splitJSONData on bounded inputs *)

\* The artifact on disk.  content is the document stream its decompressed
\* bytes hold; an archive that cannot be decompressed is a failed open.
File(content) == [exists |-> TRUE, content |-> content]
Missing == [exists |-> FALSE, content |-> <<>>]

IdleExport == expPc = "idle" /\ expLast = "none"

IdleBytes == data = <<>> /\ ret1 = NotCalled

SplitRests == {0, 6, 40}
SplitMaxes == {20, 50, 60, 100}

IdlePoller ==
    /\ pollPc = "idle"
    /\ interval = 0
    /\ totalWait = 0
    /\ readLog = <<>>
    /\ sleepLog = <<>>
    /\ pollResult = "none"

SplitInit ==
    /\ reader \in Streams(Docs(SplitRests), MaxRecords)
    /\ maxChunkSize \in SplitMaxes
    /\ emailVerify \in BOOLEAN
    /\ ret = NotCalled
    /\ pc = "call"
    /\ i = 0
    /\ jobs = <<>>
    /\ IdlePoller
    /\ artifact = Missing
    /\ IdleExport
    /\ IdleBytes

SplitCall ==
    /\ pc = "call"
    /\ ret' = splitJSONData(reader, maxChunkSize, emailVerify)
    /\ pc' = "ret"
    /\ UNCHANGED <<reader, maxChunkSize, emailVerify, i, jobs, pollVars>>
    /\ UNCHANGED <<artifact, exportVars, byteVars>>

SplitNext == SplitCall

SplitSpec == SplitInit /\ [][SplitNext]_vars

\* The records splitJSONData decodes from rd, each with the flag assigned.
Decoded(rd, ev) == [k \in 1..Len(rd) |-> SetEmailVerified(rd[k], ev)]

AllObjects(rd) == \A k \in 1..Len(rd) : rd[k].kind = "object"

\* C1: when every document of the stream decodes, splitJSONData returns without
\* error and the concatenation of its batches, in order, is the sequence of the
\* decoded records in stream order (nothing lost, duplicated or reordered).
C1_BatchesPartitionStream ==
    (pc = "ret" /\ (AllObjects(reader) \/ ret.err = "nil")) =>
        /\ ret.err = "nil"
        /\ AllObjects(reader)
        /\ Concat(ret.chunks) = Decoded(reader, emailVerify)

C1_Witness ==
    /\ pc = "ret"
    /\ ret.err = "nil"
    /\ Len(reader) = 3
    /\ Len(ret.chunks) = 2
    /\ Len(ret.chunks[1]) = 2
    /\ reader[1] # reader[2]

\* C2: every batch splitJSONData returns is non-empty.
C2_EveryBatchNonEmpty ==
    pc = "ret" => \A k \in 1..Len(ret.chunks) : Len(ret.chunks[k]) > 0

\* C3: a returned batch with more than one record has a cumulative serialized
\* size of at most maxChunkSize, and a record whose own size exceeds
\* maxChunkSize is alone in its batch.
C3_BatchSizeBound ==
    pc = "ret" =>
        \A k \in 1..Len(ret.chunks) :
            LET c == ret.chunks[k] IN
            /\ Len(c) > 1 => SumLen(c) <= maxChunkSize
            /\ SumLen(c) > maxChunkSize => Len(c) = 1
            /\ \A j \in 1..Len(c) : MarshalLen(c[j]) > maxChunkSize => Len(c) = 1

C3_Witness ==
    /\ pc = "ret"
    /\ ret.err = "nil"
    /\ \E k \in 1..Len(ret.chunks) :
          Len(ret.chunks[k]) = 2 /\ SumLen(ret.chunks[k]) = maxChunkSize
    /\ \E k \in 1..Len(ret.chunks) :
          Len(ret.chunks[k]) = 1 /\ SumLen(ret.chunks[k]) > maxChunkSize

----------------------------------------------------------------------------
(* checkImportJobStatus *)

\* What a call of m.Job.Read yields: "error" is a failed read, anything else is
\* the job's status; "processing" stands for a status the switch does not name.
Statuses == {"pending", "processing", "completed", "failed"}
PollOutcomes == Statuses \cup {"error"}
ImportOutcomes == {"pending", "completed", "failed", "error"}

\* (variant) "completed" does not return: the loop sleeps and reads again
StatusSwitchKeepsPolling(status) ==
    IF status = "failed" THEN "failed" ELSE "continue"

\* switch *job.Status: the value returned, or "continue" past the switch
StatusSwitch(status) ==
    CASE status = "completed" -> "nil"
      [] status = "failed" -> "failed"
      [] OTHER -> "continue"

\* if interval < maxInterval { interval *= 2 }
NextInterval(iv) == IF iv < MaxInterval THEN iv * 2 ELSE iv

\* (variant) the first generation's loop: for { ... } with no ceiling
LoopGuardUnbounded(tw) == TRUE

\* for totalWait < maxWait
LoopGuard(tw) == tw < MaxWait

\* (variant) running out of wait budget reported as success
TimeoutResultNil == "nil"

\* return fmt.Errorf("import job %s timed out", jobID)
TimeoutResult == "timeout"

\* The function's entry: its locals, and the first test of the loop condition.
EnterPoller ==
    /\ interval' = InitialInterval
    /\ totalWait' = 0
    /\ readLog' = <<>>
    /\ sleepLog' = <<>>
    /\ pollPc' = IF LoopGuard(0) THEN "read" ELSE "returned"
    /\ pollResult' = IF LoopGuard(0) THEN "none" ELSE TimeoutResult

\* (variant) a failed read is taken for a job still in progress
ReadFailedIgnored(outcome) == FALSE

\* if err != nil { return fmt.Errorf("failed to read job status: %w", err) }
ReadFailed(outcome) == outcome = "error"

\* job, err := m.Job.Read(ctx, jobID), the error test and the switch
ReadStatus(outcomes) ==
    /\ pc = "poll"
    /\ pollPc = "read"
    /\ Len(readLog) < MaxReads
    /\ \E o \in outcomes :
        /\ readLog' = Append(readLog, o)
        /\ IF ReadFailed(o)
           THEN pollPc' = "returned" /\ pollResult' = "readerr"
           ELSE IF StatusSwitch(o) = "continue"
                THEN pollPc' = "sleep" /\ pollResult' = pollResult
                ELSE pollPc' = "returned" /\ pollResult' = StatusSwitch(o)
    /\ UNCHANGED <<splitVars, pc, i, jobs, interval, totalWait, sleepLog>>
    /\ UNCHANGED <<artifact, exportVars, byteVars>>

\* time.Sleep(interval), the two updates, and the next test of the loop condition
Sleep ==
    /\ pc = "poll"
    /\ pollPc = "sleep"
    /\ sleepLog' = Append(sleepLog, interval)
    /\ totalWait' = totalWait + interval
    /\ interval' = NextInterval(interval)
    /\ IF LoopGuard(totalWait + interval)
       THEN pollPc' = "read" /\ pollResult' = pollResult
       ELSE pollPc' = "returned" /\ pollResult' = TimeoutResult
    /\ UNCHANGED <<splitVars, pc, i, jobs, readLog>>
    /\ UNCHANGED <<artifact, exportVars, byteVars>>

----------------------------------------------------------------------------
(* importUsersChunk and importCmd.Run *)

\* One m.Job.ImportUsers call: the batch it carries (numbered from 1), the
\* Upsert flag, the last terminal status a read observed for it ("none" so
\* far) and what importUsersChunk returned for it ("pending" until it returns).
\* (variant) the job is built without Upsert
JobWithoutUpsert(batch, users, result) ==
    [batch |-> batch, users |-> users, upsert |-> FALSE,
     observed |-> "none", result |-> result]

Job(batch, users, result) ==
    [batch |-> batch, users |-> users, upsert |-> TRUE,
     observed |-> "none", result |-> result]

Last(s) == s[Len(s)]

Observed(log) ==
    IF log # <<>> /\ Last(log) \in {"completed", "failed"} THEN Last(log) ELSE "none"

\* (variant) the error of a chunk is logged and the loop goes on
ChunkFailedIgnored(result) == FALSE

\* if err != nil { log.Fatalf(...) }
ChunkFailed(result) == result # "nil"

ImportRests == {0, 300000, 600000}

Artifacts == {Missing} \cup {File(c) : c \in Streams(Docs(ImportRests), MaxFileRecords)}

Init ==
    /\ artifact \in Artifacts
    /\ reader = <<>>
    /\ maxChunkSize = ChunkBytes
    /\ emailVerify = TRUE
    /\ ret = NotCalled
    /\ pc = "start"
    /\ i = 0
    /\ jobs = <<>>
    /\ IdlePoller
    /\ IdleExport
    /\ IdleBytes

\* (variant) the artifact is opened with os.Create, which truncates it
AfterCreate(file) == File(<<>>)

\* os.Open(...), gzip.NewReader, io.Copy: the file is read, never written
AfterOpen(file) == file

\* importCmd.Run up to the loop: open and unzip the artifact, split it
RunSplit ==
    /\ pc = "start"
    /\ \E opened \in {o \in BOOLEAN : o => artifact.exists} :
        LET r == splitJSONData(artifact.content, maxChunkSize, emailVerify) IN
        IF ~opened
        THEN pc' = "returned" /\ ret' = ret /\ i' = i /\ UNCHANGED <<reader, artifact>>
        ELSE /\ artifact' = AfterOpen(artifact)
             /\ reader' = artifact.content
             /\ ret' = r
             /\ pc' = CASE r.err = "decode" -> "returned"
                        [] r.err = "panic" -> "panicked"
                        [] OTHER -> IF r.chunks = <<>> THEN "done" ELSE "import"
             /\ i' = IF r.err = "nil" /\ r.chunks # <<>> THEN 1 ELSE i
    /\ UNCHANGED <<maxChunkSize, emailVerify, jobs, pollVars, exportVars, byteVars>>

\* the loop's step to the next chunk, or its end
Advance ==
    IF i < Len(ret.chunks) THEN pc' = "import" /\ i' = i + 1
    ELSE pc' = "done" /\ i' = i

\* importUsersChunk: build the job, m.Job.ImportUsers, enter checkImportJobStatus;
\* an error of the start call goes back to the loop of importCmd.Run
StartImport ==
    /\ pc = "import"
    /\ \E ok \in BOOLEAN :
        IF ok
        THEN /\ jobs' = Append(jobs, Job(i, ret.chunks[i], "pending"))
             /\ pc' = "poll"
             /\ i' = i
             /\ EnterPoller
        ELSE /\ jobs' = Append(jobs, Job(i, ret.chunks[i], "starterr"))
             /\ IF ChunkFailed("starterr") THEN pc' = "fatal" /\ i' = i ELSE Advance
             /\ UNCHANGED pollVars
    /\ UNCHANGED <<splitVars, artifact, exportVars, byteVars>>

\* checkImportJobStatus has returned: importUsersChunk returns its value and
\* the loop of importCmd.Run tests it
ChunkDone ==
    /\ pc = "poll"
    /\ pollPc = "returned"
    /\ jobs' = [jobs EXCEPT ![Len(jobs)].observed = Observed(readLog),
                            ![Len(jobs)].result = pollResult]
    /\ IF ChunkFailed(pollResult) THEN pc' = "fatal" /\ i' = i ELSE Advance
    /\ pollPc' = "idle"
    /\ UNCHANGED <<splitVars, interval, totalWait, readLog, sleepLog, pollResult>>
    /\ UNCHANGED <<artifact, exportVars, byteVars>>

Next ==
    \/ RunSplit
    \/ StartImport
    \/ ReadStatus(ImportOutcomes)
    \/ Sleep
    \/ ChunkDone

Spec == Init /\ [][Next]_vars

----------------------------------------------------------------------------
(* checkImportJobStatus alone: one job, just started by importUsersChunk *)

PollReader == <<Doc("object", "absent", 0)>>

PollInit ==
    /\ reader = PollReader
    /\ maxChunkSize = ChunkBytes
    /\ emailVerify = TRUE
    /\ ret = splitJSONData(PollReader, ChunkBytes, TRUE)
    /\ pc = "poll"
    /\ i = 1
    /\ jobs = <<Job(1, ret.chunks[1], "pending")>>
    /\ interval = InitialInterval
    /\ totalWait = 0
    /\ readLog = <<>>
    /\ sleepLog = <<>>
    /\ pollPc = "read"
    /\ pollResult = "none"
    /\ artifact = File(PollReader)
    /\ IdleExport
    /\ IdleBytes

PollNext ==
    \/ ReadStatus(PollOutcomes)
    \/ Sleep

PollSpec == PollInit /\ [][PollNext]_vars

\* The loop runs on: a read returns and a sleep ends.
FairPollSpec == PollSpec /\ WF_vars(PollNext)

----------------------------------------------------------------------------
(* Claims about importCmd.Run, checked under Spec *)

\* C4: once the import of a batch fails (the start call errors, the job
\* reports failed, a status read errors, or the poller times out) the run is
\* over: the failed import is the last start call ever made, so with 3 batches
\* whose 2nd job fails exactly 2 start calls are made.
C4_NoImportAfterFailure ==
    \A j \in 1..Len(jobs) :
        jobs[j].result \notin {"pending", "nil"} => j = Len(jobs) /\ pc = "fatal"

C4_Witness ==
    /\ Len(ret.chunks) = 3
    /\ Len(jobs) = 2
    /\ jobs[1].result = "nil"
    /\ jobs[2].observed = "failed"
    /\ jobs[2].result = "failed"
    /\ pc = "fatal"

\* C5: import jobs are started in batch order, one at a time: every job but
\* the last one started has been observed completed, so no two started jobs
\* are both without an observed terminal status.
C5_SequentialImports ==
    /\ \A j \in 1..Len(jobs) :
        /\ jobs[j].batch = j
        /\ j < Len(jobs) => jobs[j].observed = "completed"
    /\ Cardinality({j \in 1..Len(jobs) :
                      jobs[j].result # "starterr" /\ jobs[j].observed = "none"}) <= 1

C5_Witness ==
    /\ Len(jobs) = 3
    /\ jobs[1].observed = "completed"
    /\ jobs[2].observed = "completed"
    /\ pc = "poll"
    /\ pollPc = "sleep"
    /\ Len(sleepLog) = 2

----------------------------------------------------------------------------
(* Claims about checkImportJobStatus, checked under PollSpec / FairPollSpec *)

Terminal == {"completed", "failed"}

Min(a, b) == IF a <= b THEN a ELSE b

\* C6: the poller returns on the read that observes a terminal status: nil
\* for completed, the job-failed error for failed, with no read and no sleep
\* after that read.
C6_ReturnsOnTerminalRead ==
    \A k \in 1..Len(readLog) :
        readLog[k] \in Terminal =>
            /\ k = Len(readLog)
            /\ Len(sleepLog) = k - 1
            /\ pollPc = "returned"
            /\ pollResult = IF readLog[k] = "completed" THEN "nil" ELSE "failed"

C6_Witness ==
    /\ readLog = <<"pending", "processing", "completed">>
    /\ Len(sleepLog) = 2
    /\ pollPc = "returned"
    /\ pollResult = "nil"

\* C7: the sleeps of one job are non-decreasing and none lasts longer than
\* the interval ceiling maxInterval.
C7_SleepWithinIntervalCeiling ==
    \A k \in 1..Len(sleepLog) :
        /\ sleepLog[k] <= MaxInterval
        /\ k > 1 => sleepLog[k - 1] <= sleepLog[k]

\* C8: the accumulated sleep time totalWait never exceeds maxWait.
C8_TotalWaitWithinCeiling == totalWait <= MaxWait

AllNonTerminal == \A k \in 1..Len(readLog) : readLog[k] \notin Terminal \cup {"error"}

\* C9: if every status read succeeds and none returns completed or failed
\* (pending, or a status the switch does not name), the poller eventually
\* returns, with the timeout error.
C9_PendingForeverTimesOut ==
    <>(~AllNonTerminal \/ (pollPc = "returned" /\ pollResult = "timeout"))

C9_Witness ==
    /\ AllNonTerminal
    /\ \E k \in 1..Len(readLog) : readLog[k] = "processing"
    /\ \E k \in 1..Len(readLog) : readLog[k] = "pending"
    /\ pollPc = "returned"
    /\ pollResult = "timeout"

RECURSIVE ScheduledWait(_)
ScheduledWait(n) ==
    IF n = 0 THEN 0
    ELSE Min(InitialInterval * 2^(n - 1), MaxInterval) + ScheduledWait(n - 1)

\* C10: when the N-th read is the first to return completed and the scheduled
\* waits fit within maxWait, the poller returns success after exactly N reads
\* and N-1 sleeps, the k-th lasting min(5s * 2^(k-1), 30s).
C10_SleepsFollowSchedule ==
    (/\ pollPc = "returned"
     /\ pollResult = "nil"
     /\ ScheduledWait(Len(readLog) - 1) <= MaxWait) =>
        /\ Last(readLog) = "completed"
        /\ Len(sleepLog) = Len(readLog) - 1
        /\ \A k \in 1..Len(sleepLog) :
            sleepLog[k] = Min(InitialInterval * 2^(k - 1), MaxInterval)

\* C11: a status read that fails ends checkImportJobStatus with the read
\* error at once: the failed read is the last one (no retry), no sleep
\* follows it, and it is not taken for a pending status.
C11_ReadErrorEndsPolling ==
    \A k \in 1..Len(readLog) :
        readLog[k] = "error" =>
            /\ k = Len(readLog)
            /\ Len(sleepLog) = k - 1
            /\ pollPc = "returned"
            /\ pollResult = "readerr"

C11_Witness ==
    /\ readLog = <<"pending", "pending", "error">>
    /\ sleepLog = <<5, 10>>
    /\ pollPc = "returned"
    /\ pollResult = "readerr"

----------------------------------------------------------------------------
(* exportCmd.Run: exportUsers, checkJobStatus, downloadFile *)

\* checkJobStatus: the error it returns for an outcome of m.Job.Read
\* ("nil" with the location when the status is completed)
checkJobStatus(outcome) ==
    CASE outcome = "error" -> "readerr"
      [] outcome = "completed" -> "nil"
      [] OTHER -> "notcompleted"

\* What exported_users.json.gz can hold before the export runs
PriorArtifacts == {Missing, File(<<>>), File(<<Doc("object", "true", 0)>>)}

\* What the export job's archive can hold
ExportedContents == Streams(Docs(ImportRests), MaxFileRecords)

ExportInit ==
    /\ expPc = "start"
    /\ expLast = "none"
    /\ artifact \in PriorArtifacts
    /\ reader = <<>>
    /\ maxChunkSize = ChunkBytes
    /\ emailVerify = TRUE
    /\ ret = NotCalled
    /\ pc = "idle"
    /\ i = 0
    /\ jobs = <<>>
    /\ IdlePoller
    /\ IdleBytes

\* jobID, err := exportUsers(ctx, sourceClient) and its error test
StartExport ==
    /\ expPc = "start"
    /\ \E ok \in BOOLEAN : expPc' = IF ok THEN "sleep" ELSE "returned"
    /\ UNCHANGED <<splitVars, pc, i, jobs, pollVars, artifact, expLast, byteVars>>

\* time.Sleep(10 * time.Second) at the top of the loop
ExportSleep ==
    /\ expPc = "sleep"
    /\ expPc' = "check"
    /\ UNCHANGED <<splitVars, pc, i, jobs, pollVars, artifact, expLast, byteVars>>

\* downloadFile: http.Get fails (file untouched), io.Copy fails after
\* os.Create (file created, partly written), or the archive is written
Download(content) ==
    \/ expPc' = "fatal" /\ artifact' = artifact
    \/ expPc' = "fatal" /\ artifact' = File(<<Doc("bad", "absent", 0)>>)
    \/ expPc' = "done" /\ artifact' = File(content)

\* location, err := checkJobStatus(...) and the rest of the loop body
ExportCheck ==
    /\ expPc = "check"
    /\ \E o \in PollOutcomes :
        /\ expLast' = o
        /\ IF checkJobStatus(o) = "nil"
           THEN \E content \in ExportedContents : Download(content)
           ELSE expPc' = "sleep" /\ artifact' = artifact
    /\ UNCHANGED <<splitVars, pc, i, jobs, pollVars, byteVars>>

ExportNext ==
    \/ StartExport
    \/ ExportSleep
    \/ ExportCheck

ExportSpec == ExportInit /\ [][ExportNext]_vars

\* The loop runs on: the sleep ends and the status read returns.
FairExportSpec == ExportSpec /\ WF_vars(ExportNext)

ExportEnded == expPc \in {"done", "returned", "fatal"}

\* C12: an error of the status read ends the export phase at once: after a
\* failed read the export loop is not polling any more.
C12_ExportReadErrorEndsExport ==
    expLast = "error" => ExportEnded

\* C13: once the export job's status is failed the export command stops
\* polling and ends with a failure.
C13_ExportFailedEndsExport ==
    expLast = "failed" => expPc \in {"returned", "fatal"}

\* C14: whatever the status reads return, the export command's polling loop
\* ends after finitely many polls.
C14_ExportPollingTerminates == <>ExportEnded

----------------------------------------------------------------------------
(* More claims about splitJSONData (SplitSpec) and importCmd.Run (Spec) *)

HasMalformed(rd) == \E k \in 1..Len(rd) : rd[k].kind = "bad"

\* C15: if any record of the stream is malformed, splitJSONData returns an
\* error and no batches, whatever preceded the malformed record.
C15_MalformedRecordReturnsError ==
    (pc = "ret" /\ HasMalformed(reader)) =>
        ret.err = "decode" /\ ret.chunks = <<>>

\* C16: every record of every returned batch has email_verified equal to
\* emailVerify, whatever the input held, and is otherwise the decoded record.
C16_FlagForcedRestUntouched ==
    (pc = "ret" /\ ret.err = "nil") =>
        LET out == Concat(ret.chunks) IN
        /\ Len(out) = Len(reader)
        /\ \A k \in 1..Len(out) :
            /\ out[k].email_verified = BoolStr(emailVerify)
            /\ out[k].kind = reader[k].kind
            /\ out[k].rest = reader[k].rest

C16_Witness ==
    /\ pc = "ret"
    /\ ret.err = "nil"
    /\ emailVerify
    /\ Len(reader) = 3
    /\ reader[1].email_verified = "false" /\ reader[1].rest > 0
    /\ reader[2].email_verified = "absent"
    /\ reader[3].email_verified = "true"
    /\ Len(ret.chunks) = 2

\* C17: every import job started carries the records of one batch, in the
\* batch's order, with Upsert true; when every job has completed, exactly one
\* job per batch has been started, in batch order.
C17_OneUpsertJobPerBatch ==
    /\ \A j \in 1..Len(jobs) :
        /\ jobs[j].upsert = TRUE
        /\ jobs[j].batch \in 1..Len(ret.chunks)
        /\ jobs[j].users = ret.chunks[jobs[j].batch]
    /\ pc = "done" =>
        /\ Len(jobs) = Len(ret.chunks)
        /\ \A j \in 1..Len(jobs) : jobs[j].batch = j /\ jobs[j].result = "nil"

C17_Witness ==
    /\ pc = "done"
    /\ Len(jobs) = 3
    /\ Len(jobs[1].users) = 1
    /\ jobs[3].observed = "completed"

\* C18: the import run never writes, truncates or deletes the artifact: no
\* step of the run changes it, however the run ends.
C18_ImportLeavesArtifact == [][artifact' = artifact]_vars

C18_Witness ==
    /\ pc = "fatal"
    /\ artifact.exists
    /\ Len(artifact.content) = 3
    /\ reader = artifact.content
    /\ jobs[Len(jobs)].result = "timeout"

----------------------------------------------------------------------------
(* The input at the byte level, and the two generations' decoders *)

\* An input is a sequence of tokens, each standing for a run of bytes:
\*   "{" "}"  the braces of the object {}   "obj" the object {"k":v}
\*   "nl"     a newline                     "sp"  space, tab or CR
\*   "vt"     white space to strings.TrimSpace that is none to encoding/json
\*            (\v, \f, U+0085, U+00A0)
\*   "null"   the literal null              "x"   any other bytes
Tokens == {"{", "}", "obj", "nl", "sp", "vt", "null", "x"}

ByteStrings == Streams(Tokens, MaxBytes)

JsonSpace == {"sp", "nl"}
TrimSet == {"sp", "nl", "vt"}

RECURSIVE SkipSpace(_)
SkipSpace(s) ==
    IF s # <<>> /\ Head(s) \in JsonSpace THEN SkipSpace(Tail(s)) ELSE s

\* The object {} or {"k":v} as a decoded record
ObjectDoc(hasMember) == Doc("object", "absent", IF hasMember THEN 5 ELSE 0)

BadDoc == Doc("bad", "absent", 0)
NullDoc == Doc("null", "absent", 0)

\* The scanner on a value that starts at the head of s: the document and
\* what follows it, or ok = FALSE on a syntax error or an unexpected end.
ScanValue(s) ==
    IF s = <<>> THEN [ok |-> FALSE, doc |-> BadDoc, rest |-> <<>>]
    ELSE IF Head(s) = "null" THEN [ok |-> TRUE, doc |-> NullDoc, rest |-> Tail(s)]
    ELSE IF Head(s) = "obj" THEN [ok |-> TRUE, doc |-> ObjectDoc(TRUE), rest |-> Tail(s)]
    ELSE IF Head(s) = "{" THEN
        LET b == SkipSpace(Tail(s)) IN
        IF b # <<>> /\ Head(b) = "}"
        THEN [ok |-> TRUE, doc |-> ObjectDoc(FALSE), rest |-> Tail(b)]
        ELSE [ok |-> FALSE, doc |-> BadDoc, rest |-> <<>>]
    ELSE [ok |-> FALSE, doc |-> BadDoc, rest |-> <<>>]

\* (variant) the decoder is asked for one document only
DecodeRestNone(s) == <<>>

\* second generation: json.NewDecoder(reader) and the decoder.Decode(&user)
\* calls of the loop: the documents in order, ended by a bad one at an error
RECURSIVE DecodeStream(_)
DecodeRest(s) == DecodeStream(s)

DecodeStream(s) ==
    LET t == SkipSpace(s) IN
    IF t = <<>> THEN <<>>
    ELSE LET v == ScanValue(t) IN
         IF v.ok THEN <<v.doc>> \o DecodeRest(v.rest) ELSE <<BadDoc>>

\* first generation: strings.Split(string(data), "\n")
RECURSIVE SplitLines(_, _)
SplitLines(s, line) ==
    IF s = <<>> THEN <<line>>
    ELSE IF Head(s) = "nl" THEN <<line>> \o SplitLines(Tail(s), <<>>)
    ELSE SplitLines(Tail(s), Append(line, Head(s)))

RECURSIVE TrimLeft(_)
TrimLeft(s) == IF s # <<>> /\ Head(s) \in TrimSet THEN TrimLeft(Tail(s)) ELSE s

RECURSIVE TrimRight(_)
TrimRight(s) ==
    IF s # <<>> /\ s[Len(s)] \in TrimSet THEN TrimRight(SubSeq(s, 1, Len(s) - 1)) ELSE s

\* strings.TrimSpace(line)
TrimSpace(line) == TrimRight(TrimLeft(line))

\* json.Unmarshal([]byte(line), &user): the line must be one value and nothing else
Unmarshal(line) ==
    LET v == ScanValue(line) IN
    IF v.ok /\ SkipSpace(v.rest) = <<>> THEN v.doc ELSE BadDoc

\* first generation: the documents of the lines in order, blank lines skipped,
\* ended by a bad one at the first line that does not parse
RECURSIVE DecodeLines(_)
DecodeLines(lines) ==
    IF lines = <<>> THEN <<>>
    ELSE LET line == TrimSpace(Head(lines)) IN
         IF line = <<>> THEN DecodeLines(Tail(lines))
         ELSE IF Unmarshal(line).kind = "bad" THEN <<BadDoc>>
         ELSE <<Unmarshal(line)>> \o DecodeLines(Tail(lines))

\* first generation: len(json.Marshal(user)); a nil map is written as null
MarshalLen1(user) == IF user.kind = "null" THEN 4 ELSE MarshalLen(user)

\* first generation's loop over the lines: no flag is assigned and a nil map
\* is appended like any record
RECURSIVE SplitLoop1(_, _, _, _, _)
SplitLoop1(rd, maxSize, chunks, chunk, chunkSize) ==
    IF rd = <<>> THEN [chunks |-> FinalChunks(chunks, chunk), err |-> "nil"]
    ELSE IF Head(rd).kind = "bad" THEN [chunks |-> <<>>, err |-> "decode"]
    ELSE LET user == Head(rd)
             userSize == MarshalLen1(user)
             over == Overflows(chunkSize, userSize, maxSize)
             chunks1 == IF over THEN CloseChunk(chunks, chunk) ELSE chunks
             chunk1 == IF over THEN <<>> ELSE chunk
             size1 == IF over THEN 0 ELSE chunkSize
         IN SplitLoop1(Tail(rd), maxSize, chunks1,
                       Append(chunk1, user), size1 + userSize)

splitJSONData1(bytes, maxSize) ==
    SplitLoop1(DecodeLines(SplitLines(bytes, <<>>)), maxSize, <<>>, <<>>, 0)

----------------------------------------------------------------------------
(* Both generations of splitJSONData called on the same bytes *)

ByteMaxes == {20, 50}

ByteInit ==
    /\ data \in ByteStrings
    /\ ret1 = NotCalled
    /\ reader = <<>>
    /\ maxChunkSize \in ByteMaxes
    /\ emailVerify \in BOOLEAN
    /\ ret = NotCalled
    /\ pc = "call"
    /\ i = 0
    /\ jobs = <<>>
    /\ IdlePoller
    /\ artifact = Missing
    /\ IdleExport

\* the first generation's splitJSONData(data, maxChunkSize)
SplitCall1 ==
    /\ pc = "call"
    /\ ret1 = NotCalled
    /\ ret1' = splitJSONData1(data, maxChunkSize)
    /\ UNCHANGED <<splitVars, pc, i, jobs, pollVars, artifact, exportVars, data>>

\* the second generation's splitJSONData(strings.NewReader(data), ...)
SplitCall2 ==
    /\ pc = "call"
    /\ ret = NotCalled
    /\ reader' = DecodeStream(data)
    /\ ret' = splitJSONData(DecodeStream(data), maxChunkSize, emailVerify)
    /\ UNCHANGED <<maxChunkSize, emailVerify, pc, i, jobs, pollVars, artifact,
                   exportVars, byteVars>>

ByteNext ==
    \/ SplitCall1
    \/ SplitCall2

ByteSpec == ByteInit /\ [][ByteNext]_vars

\* An import run whose artifact holds the bytes data
ByteImportInit ==
    /\ data \in ByteStrings
    /\ ret1 = NotCalled
    /\ artifact = File(DecodeStream(data))
    /\ reader = <<>>
    /\ maxChunkSize = ChunkBytes
    /\ emailVerify = TRUE
    /\ ret = NotCalled
    /\ pc = "start"
    /\ i = 0
    /\ jobs = <<>>
    /\ IdlePoller
    /\ IdleExport

ByteImportSpec == ByteImportInit /\ [][Next]_vars

----------------------------------------------------------------------------
(* Claims about the input at the byte level *)

JsonBlank(bytes) == \A k \in 1..Len(bytes) : bytes[k] \in JsonSpace

\* C19: for an input with no documents (empty, or only JSON white space)
\* splitJSONData returns zero batches and no error, not one empty batch, and
\* the import command then ends without starting any import job.
C19_EmptyStreamNoBatchNoJob ==
    (JsonBlank(data) /\ ret # NotCalled) =>
        /\ ret = [chunks |-> <<>>, err |-> "nil"]
        /\ pc = "done"
        /\ jobs = <<>>

C19_Witness ==
    /\ data = <<"sp", "nl", "nl", "sp">>
    /\ reader = <<>>
    /\ ret.err = "nil"
    /\ pc = "done"

BothCalled == ret # NotCalled /\ ret1 # NotCalled

\* The records of the two results are the same: the second generation's are
\* the first generation's with the flag assigned.
SameRecords == Concat(ret.chunks) = Decoded(Concat(ret1.chunks), emailVerify)

Has(bytes, tok) == \E k \in 1..Len(bytes) : bytes[k] = tok

\* C20 (as claimed): on every input the two generations either both reject it
\* or both accept it and decode the same records.  Inputs with a top-level
\* null are left out here, so that a violation does not rest on the crash
\* of the second generation on such a document.
C20_DecodersEquivalent ==
    (BothCalled /\ ~Has(data, "null")) =>
        \/ ret.err = "decode" /\ ret1.err = "decode"
        \/ ret.err = "nil" /\ ret1.err = "nil" /\ SameRecords

\* C20 (amended): whenever both generations accept an input they decode the
\* same records, and an input whose white space is JSON white space and that
\* the first generation accepts is never rejected as malformed by the second.
C20_DecodersAgreeWhereBothAccept ==
    BothCalled =>
        /\ (ret.err = "nil" /\ ret1.err = "nil") => SameRecords
        /\ (ret1.err = "nil" /\ ~Has(data, "vt")) => ret.err # "decode"

C20_Witness ==
    /\ BothCalled
    /\ data = <<"obj", "nl", "{", "}">>
    /\ ret1.err = "nil"
    /\ ret.err = "nil"
    /\ Len(Concat(ret.chunks)) = 2

----------------------------------------------------------------------------
(* Claim about the outcomes of splitJSONData *)

\* C21: splitJSONData always ends in one of two outcomes, (batches, no error)
\* or (no batches, error), for every input stream; it never crashes, not even
\* on a valid document that is not an object, such as a top-level null.
C21_SplitEndsInBatchesOrError ==
    ret # NotCalled =>
        \/ ret.err = "nil"
        \/ ret.err = "decode" /\ ret.chunks = <<>>

====
